---- MODULE Spec2Model ----
(***************************************************************************)
(* rust-qr-data-exchange: the password-protected container codec           *)
(* (src/qr/processor.rs over src/crypto/mod.rs) and its caller             *)
(* generate_qr_async (src/main.rs).                                        *)
(*                                                                         *)
(* Bytes are 0..255, byte strings are sequences of bytes, a text string is *)
(* the sequence of its ASCII codes, a password is the sequence of its      *)
(* bytes.  The libraries the code calls are modelled by what they compute: *)
(* base64 STANDARD and rmp_serde's MessagePack at the byte level, zstd by  *)
(* the single-block frames (raw and run-length blocks) of its format,      *)
(* secretbox by a keystream XOR with a tag in front, argon2 by an          *)
(* injective key (the pair of its inputs).  secretbox::open is the ideal   *)
(* authenticated decryption: it accepts exactly the boxes secretbox::seal  *)
(* has produced under the same key and nonce (the set sealed).             *)
(* The random generators return any value of their range on every call.    *)
(* Resource exhaustion (argon2 out of memory, sodium_init failing) is not  *)
(* modelled: those library calls succeed.                                  *)
(***************************************************************************)
EXTENDS Integers, Sequences, FiniteSets, TLC

(***************************************************************************)
(* Results: Rust's Result<T, E>.                                           *)
(***************************************************************************)
NoErr == [kind |-> "none", inner |-> "none"]

Ok(v) == [ok |-> TRUE, val |-> v, err |-> NoErr]

Err(e) == [ok |-> FALSE, val |-> <<>>, err |-> e]

\* CryptoError, src/crypto/mod.rs:6-18
CryptoErrors ==
    {"KeyDerivationFailed", "EncryptionFailed", "DecryptionFailed",
     "InvalidSalt", "InvalidPassword"}

\* QrProcessorError, src/qr/processor.rs:8-18; Crypto(#[from] CryptoError)
Crypto(e) == [kind |-> "Crypto", inner |-> e]

CompressionError == [kind |-> "Compression", inner |-> "none"]

SerializationError == [kind |-> "Serialization", inner |-> "none"]

Base64Error == [kind |-> "Base64", inner |-> "none"]

(***************************************************************************)
(* Byte helpers.                                                           *)
(***************************************************************************)
Byte == 0..255

RECURSIVE Xor(_, _)
Xor(a, b) ==
    IF a = 0 THEN b
    ELSE IF b = 0 THEN a
    ELSE 2 * Xor(a \div 2, b \div 2) + ((a + b) % 2)

RECURSIVE SumSeq(_)
SumSeq(s) == IF s = <<>> THEN 0 ELSE s[1] + SumSeq(Tail(s))

Take(s, n) == SubSeq(s, 1, n)

Drop(s, n) == SubSeq(s, n + 1, Len(s))

\* big-endian value of the n bytes of s that start at index p, saturating at
\* 2^24: every use compares it with 255 or with a buffer length far below
RECURSIVE BeValue(_, _, _)
BeValue(s, p, n) ==
    IF n = 0 THEN 0
    ELSE IF BeValue(s, p, n - 1) >= 65536 THEN 256 * 65536
    ELSE BeValue(s, p, n - 1) * 256 + s[p + n - 1]

(***************************************************************************)
(* base64::engine::general_purpose::STANDARD (src/qr/processor.rs:48, 54): *)
(* the alphabet A-Z a-z 0-9 + /, '=' padding, which decode requires and    *)
(* requires canonical (no stray bits in the last symbol).                  *)
(***************************************************************************)
PadChar == 61

B64Char(v) ==
    IF v < 26 THEN 65 + v
    ELSE IF v < 52 THEN 97 + (v - 26)
    ELSE IF v < 62 THEN 48 + (v - 52)
    ELSE IF v = 62 THEN 43 ELSE 47

\* the 6-bit value of a symbol, -1 for a byte outside the alphabet
B64Val(c) ==
    IF c >= 65 /\ c <= 90 THEN c - 65
    ELSE IF c >= 97 /\ c <= 122 THEN c - 97 + 26
    ELSE IF c >= 48 /\ c <= 57 THEN c - 48 + 52
    ELSE IF c = 43 THEN 62
    ELSE IF c = 47 THEN 63 ELSE -1

B64Encode(bs) ==
    LET n == Len(bs)
        at(i) == IF i <= n THEN bs[i] ELSE 0
    IN  [j \in 1..(4 * ((n + 2) \div 3)) |->
            LET k == (j - 1) \div 4
                p == (j - 1) % 4
                b0 == at(3 * k + 1)
                b1 == at(3 * k + 2)
                b2 == at(3 * k + 3)
            IN  IF p = 0 THEN B64Char(b0 \div 4)
                ELSE IF p = 1 THEN B64Char((b0 % 4) * 16 + b1 \div 16)
                ELSE IF p = 2 THEN
                    IF 3 * k + 2 > n THEN PadChar
                    ELSE B64Char((b1 % 16) * 4 + b2 \div 64)
                ELSE IF 3 * k + 3 > n THEN PadChar ELSE B64Char(b2 % 64)]

\* the number of '=' that end the text (0, 1 or 2 are counted)
B64Pads(text) ==
    LET n == Len(text)
    IN  IF n >= 1 /\ text[n] = PadChar
        THEN IF n >= 2 /\ text[n - 1] = PadChar THEN 2 ELSE 1
        ELSE 0

B64Valid(text) ==
    LET n == Len(text)
        pads == B64Pads(text)
    IN  /\ n % 4 = 0
        /\ \A i \in 1..(n - pads) : B64Val(text[i]) >= 0
        /\ pads = 2 => B64Val(text[n - 2]) % 16 = 0
        /\ pads = 1 => B64Val(text[n - 1]) % 4 = 0

B64Decode(text) ==
    IF ~B64Valid(text) THEN Err(Base64Error)
    ELSE
        LET n == Len(text)
            val(i) == IF text[i] = PadChar THEN 0 ELSE B64Val(text[i])
        IN  Ok([i \in 1..(3 * (n \div 4) - B64Pads(text)) |->
                LET k == (i - 1) \div 3
                    q == (i - 1) % 3
                    v0 == val(4 * k + 1)
                    v1 == val(4 * k + 2)
                    v2 == val(4 * k + 3)
                    v3 == val(4 * k + 4)
                IN  IF q = 0 THEN v0 * 4 + v1 \div 16
                    ELSE IF q = 1 THEN (v1 % 16) * 16 + v2 \div 4
                    ELSE (v2 % 4) * 64 + v3])

(***************************************************************************)
(* rmp_serde over struct QrData { salt: Vec<u8>, encrypted: Vec<u8> }      *)
(* (src/qr/processor.rs:20-24).  to_vec writes the struct as a 2-element   *)
(* array and each Vec<u8> as an array of integers (serde's sequence, not   *)
(* MessagePack bin): 0..127 as a positive fixint, 128..255 as 0xcc v.      *)
(***************************************************************************)
EncU8(v) == IF v < 128 THEN <<v>> ELSE <<204, v>>

RECURSIVE EncElems(_)
EncElems(s) ==
    IF Len(s) = 0 THEN <<>>
    ELSE IF Len(s) = 1 THEN EncU8(s[1])
    ELSE LET h == Len(s) \div 2
         IN  EncElems(SubSeq(s, 1, h)) \o EncElems(SubSeq(s, h + 1, Len(s)))

EncArrayHeader(n) ==
    IF n <= 15 THEN <<144 + n>>
    ELSE IF n <= 65535 THEN <<220, n \div 256, n % 256>>
    ELSE <<221, n \div 16777216, (n \div 65536) % 256, (n \div 256) % 256, n % 256>>

EncByteVec(s) == EncArrayHeader(Len(s)) \o EncElems(s)

\* rmp_serde::to_vec(&qr_data), src/qr/processor.rs:45
\* the record with its fields in the other order, which RoundTrip rejects
PackEncryptedFirst(salt, encrypted) ==
    <<146>> \o EncByteVec(encrypted) \o EncByteVec(salt)

Pack(salt, encrypted) == <<146>> \o EncByteVec(salt) \o EncByteVec(encrypted)

(***************************************************************************)
(* rmp_serde::from_slice::<QrData> (src/qr/processor.rs:56).  A reader     *)
(* result is [ok, val, next]: the value read and the index after it.       *)
(* Bytes that follow the struct are not looked at.                         *)
(***************************************************************************)
RdFail == [ok |-> FALSE, val |-> 0, next |-> 0]

Rd(v, n) == [ok |-> TRUE, val |-> v, next |-> n]

Has(bs, p, n) == p >= 1 /\ p + n - 1 <= Len(bs)

\* a MessagePack integer of any width, as serde's u8 visitor takes it: the
\* value must lie in 0..255 whatever the width it is written in
ReadU8(bs, p) ==
    IF ~Has(bs, p, 1) THEN RdFail
    ELSE
        LET m == bs[p]
            uint(n) ==
                IF Has(bs, p + 1, n) /\ BeValue(bs, p + 1, n) <= 255
                THEN Rd(BeValue(bs, p + 1, n), p + 1 + n) ELSE RdFail
            \* two's complement: the sign bit set is a negative value
            sint(n) ==
                IF Has(bs, p + 1, n) /\ bs[p + 1] < 128 THEN uint(n) ELSE RdFail
        IN  IF m <= 127 THEN Rd(m, p + 1)
            ELSE IF m = 204 THEN uint(1)
            ELSE IF m = 205 THEN uint(2)
            ELSE IF m = 206 THEN uint(4)
            ELSE IF m = 207 THEN uint(8)
            ELSE IF m = 208 THEN sint(1)
            ELSE IF m = 209 THEN sint(2)
            ELSE IF m = 210 THEN sint(4)
            ELSE IF m = 211 THEN sint(8)
            ELSE RdFail

\* n elements one after the other from p on, the first half and then the
\* rest from where the first half ended; the first failure fails the whole
RECURSIVE ReadElems(_, _, _)
ReadElems(bs, p, n) ==
    IF n = 0 THEN Rd(<<>>, p)
    ELSE IF n = 1
    THEN CHOOSE r \in {IF e.ok THEN Rd(<<e.val>>, e.next) ELSE RdFail :
                       e \in {ReadU8(bs, p)}} : TRUE
    ELSE CHOOSE r \in
            {IF ~a.ok THEN RdFail
             ELSE CHOOSE q \in {IF b.ok THEN Rd(a.val \o b.val, b.next) ELSE RdFail :
                                b \in {ReadElems(bs, a.next, n - (n \div 2))}} : TRUE :
             a \in {ReadElems(bs, p, n \div 2)}} : TRUE

\* the length an array or bin marker at p announces, and where its content
\* starts; bytes is TRUE for bin8/bin16/bin32
ReadSeqHeader(bs, p) ==
    IF ~Has(bs, p, 1) THEN RdFail
    ELSE
        LET m == bs[p]
            len(n, isBin) ==
                IF Has(bs, p + 1, n)
                THEN Rd([len |-> BeValue(bs, p + 1, n), bytes |-> isBin], p + 1 + n)
                ELSE RdFail
        IN  IF m >= 144 /\ m <= 159
            THEN Rd([len |-> m - 144, bytes |-> FALSE], p + 1)
            ELSE IF m = 220 THEN len(2, FALSE)
            ELSE IF m = 221 THEN len(4, FALSE)
            ELSE IF m = 196 THEN len(1, TRUE)
            ELSE IF m = 197 THEN len(2, TRUE)
            ELSE IF m = 198 THEN len(4, TRUE)
            ELSE RdFail

\* a Vec<u8> field: deserialize_seq takes an array of integers and also a
\* bin, whose bytes it hands to the sequence visitor one by one
ReadByteVec(bs, p) ==
    LET h == ReadSeqHeader(bs, p)
    IN  IF ~h.ok THEN RdFail
        ELSE IF h.val.bytes
        THEN IF Has(bs, h.next, h.val.len)
             THEN Rd(SubSeq(bs, h.next, h.next + h.val.len - 1), h.next + h.val.len)
             ELSE RdFail
        ELSE ReadElems(bs, h.next, h.val.len)

\* the map markers (fixmap, map16, map32): the number of entries announced
\* and where the first key starts
ReadMapHeader(bs, p) ==
    IF ~Has(bs, p, 1) THEN RdFail
    ELSE IF bs[p] >= 128 /\ bs[p] <= 143 THEN Rd(bs[p] - 128, p + 1)
    ELSE IF bs[p] = 222 /\ Has(bs, p + 1, 2) THEN Rd(BeValue(bs, p + 1, 2), p + 3)
    ELSE IF bs[p] = 223 /\ Has(bs, p + 1, 4) THEN Rd(BeValue(bs, p + 1, 4), p + 5)
    ELSE RdFail

\* a field identifier is an integer, a str or a bin; any other marker in a
\* key's place is an invalid type
IsFieldKey(m) ==
    \/ m <= 127
    \/ m >= 160 /\ m <= 191
    \/ m \in 196..198 \cup 204..207 \cup 217..219

\* a map in the struct's place fails when it is empty (missing field), when
\* its first key is no field identifier (invalid type), and when it
\* announces more entries than the bytes left can hold (end of input)
MapFails(bs, m) ==
    \/ m.val = 0
    \/ 2 * m.val > Len(bs) - m.next + 1
    \/ ~IsFieldKey(bs[m.next])

\* the records this model reads: all but the map-form ones that rmp_serde
\* would walk entry by entry
ModelledRecord(bs) ==
    LET m == ReadMapHeader(bs, 1) IN m.ok => MapFails(bs, m)

\* the struct: an array whose two elements are the fields, in order; fewer
\* elements are invalid_length, more are LengthMismatch.  A bin in the
\* struct's place yields bare integers where a sequence is expected, a map
\* fails as MapFails says, and any other marker is an invalid type.
Unpack(bs) ==
    LET h == ReadSeqHeader(bs, 1)
    IN  IF ~h.ok \/ h.val.bytes \/ h.val.len # 2 THEN Err(SerializationError)
        ELSE
            LET f1 == ReadByteVec(bs, h.next)
            IN  IF ~f1.ok THEN Err(SerializationError)
                ELSE
                    LET f2 == ReadByteVec(bs, f1.next)
                    IN  IF ~f2.ok THEN Err(SerializationError)
                        ELSE Ok([salt |-> f1.val, encrypted |-> f2.val])

(***************************************************************************)
(* zstd::encode_all(raw_data, 16) and zstd::decode_all                     *)
(* (src/qr/processor.rs:35, 66): a frame is the magic number, a two-byte   *)
(* frame header and one last block; the block is run-length (type 1: one   *)
(* byte, repeated Block_Size times) when the input repeats one byte, and   *)
(* raw (type 0) otherwise.  Block_Header is three little-endian bytes      *)
(* holding Last_Block + 2 * Block_Type + 8 * Block_Size.                   *)
(***************************************************************************)
ZstdMagic == <<40, 181, 47, 253>>

ZstdFrameHeader == <<0, 88>>

ZstdBlockHeader(type, size) ==
    LET v == 1 + 2 * type + 8 * size
    IN  <<v % 256, (v \div 256) % 256, (v \div 65536) % 256>>

IsRun(raw) == Len(raw) >= 2 /\ \A i \in 1..Len(raw) : raw[i] = raw[1]

Compress(raw) ==
    Ok(ZstdMagic \o ZstdFrameHeader \o
       (IF IsRun(raw)
        THEN ZstdBlockHeader(1, Len(raw)) \o <<raw[1]>>
        ELSE ZstdBlockHeader(0, Len(raw)) \o raw))

Decompress(frame) ==
    IF Len(frame) < 9 \/ Take(frame, 4) # ZstdMagic
       \/ SubSeq(frame, 5, 6) # ZstdFrameHeader
    THEN Err(CompressionError)
    ELSE
        LET v == frame[7] + 256 * frame[8] + 65536 * frame[9]
            type == (v \div 2) % 4
            size == v \div 8
            body == Drop(frame, 9)
        IN  IF v % 2 # 1 THEN Err(CompressionError)
            ELSE IF type = 0 /\ Len(body) = size THEN Ok(body)
            ELSE IF type = 1 /\ Len(body) = 1 THEN Ok([i \in 1..size |-> body[1]])
            ELSE Err(CompressionError)

(***************************************************************************)
(* crypto_utils (src/crypto/mod.rs).                                       *)
(***************************************************************************)
\* pwhash::argon2i13::SALTBYTES
SALTBYTES == 16

\* secretbox::NONCEBYTES
NONCEBYTES == 24

\* secretbox::MACBYTES
MACBYTES == 16

NoKey == [pw |-> <<>>, salt |-> <<>>]

\* a generate_salt that returns one salt every time, which FreshDraws rejects
GenerateSaltFixed(draw) == [i \in 1..SALTBYTES |-> (5 * i) % 256]

\* generate_salt: the value gen_salt() returns, which is the generator's
\* draw for this call
GenerateSalt(draw) == draw

\* a derive_key without the emptiness test, which EmptyPasswordOutcome rejects
DeriveKeyAnyPassword(password, salt) == Ok([pw |-> password, salt |-> salt])

\* derive_key: argon2i13 is deterministic in (password, salt) and is taken
\* to be injective, so the key is the pair itself
DeriveKey(password, salt) ==
    IF password = <<>> THEN Err("InvalidPassword")
    ELSE Ok([pw |-> password, salt |-> salt])

\* the XSalsa20 keystream of (key, nonce), byte i
StreamSeed(key, nonce) ==
    (7 * SumSeq(key.pw) + 3 * SumSeq(key.salt) + 5 * SumSeq(nonce) + 1) % 256

KeyStream(seed, i) == (seed + 31 * i + i * i) % 256

XorStream(data, key, nonce) ==
    LET seed == StreamSeed(key, nonce)
    IN  [i \in 1..Len(data) |-> Xor(data[i], KeyStream(seed, i))]

\* secretbox::seal: the authentication tag, then the ciphertext
Seal(data, nonce, key) ==
    LET ct == XorStream(data, key, nonce)
        seed == StreamSeed(key, nonce)
        edge == IF ct = <<>> THEN 0 ELSE ct[1] + 3 * ct[Len(ct)]
    IN  [j \in 1..MACBYTES |-> (11 * seed + 17 * j + Len(ct) + edge) % 256] \o ct

\* an open that does not authenticate, which WrongPasswordFails rejects
OpenUnauthenticated(box, nonce, key, sealedBoxes) ==
    IF Len(box) >= MACBYTES THEN Ok(XorStream(Drop(box, MACBYTES), key, nonce))
    ELSE Err("()")

\* an open that authenticates the box but not the nonce, which
\* TamperNeverWrongOutput rejects
OpenAnyNonce(box, nonce, key, sealedBoxes) ==
    IF \E s \in sealedBoxes : s.key = key /\ s.box = box
    THEN Ok(XorStream(Drop(box, MACBYTES), key, nonce))
    ELSE Err("()")

\* secretbox::open: Ok(plaintext) for a box that seal produced under this
\* key and nonce, Err(()) for every other input
Open(box, nonce, key, sealedBoxes) ==
    IF Len(box) >= MACBYTES
       /\ [key |-> key, nonce |-> nonce, box |-> box] \in sealedBoxes
    THEN Ok(XorStream(Drop(box, MACBYTES), key, nonce))
    ELSE Err("()")

\* encrypt: nonce is the value gen_nonce() returns
Encrypt(data, key, nonce) == Ok(nonce \o Seal(data, nonce, key))

\* a decrypt with an error of its own for short blobs, which
\* DecryptSingleFailure rejects
DecryptTellsShort(encrypted_data, key, sealedBoxes) ==
    IF Len(encrypted_data) < NONCEBYTES THEN Err("TooShort")
    ELSE
        LET opened == Open(Drop(encrypted_data, NONCEBYTES),
                           Take(encrypted_data, NONCEBYTES), key, sealedBoxes)
        IN  IF opened.ok THEN Ok(opened.val) ELSE Err("DecryptionFailed")

\* decrypt
Decrypt(encrypted_data, key, sealedBoxes) ==
    IF Len(encrypted_data) < NONCEBYTES THEN Err("DecryptionFailed")
    ELSE
        LET nonce == Take(encrypted_data, NONCEBYTES)
            ciphertext == Drop(encrypted_data, NONCEBYTES)
            opened == Open(ciphertext, nonce, key, sealedBoxes)
        IN  IF opened.ok THEN Ok(opened.val) ELSE Err("DecryptionFailed")

\* a from_slice that takes any length, which SaltValidation rejects
SaltFromSliceAnyLength(bytes) == Ok(bytes)

\* pwhash::argon2i13::Salt::from_slice: None unless the length is SALTBYTES
SaltFromSlice(bytes) ==
    IF Len(bytes) = SALTBYTES THEN Ok(bytes) ELSE Err("InvalidSalt")

(***************************************************************************)
(* One call of QrDataProcessor::serialize or ::deserialize                 *)
(* (src/qr/processor.rs:28-71), statement by statement.  A call record     *)
(* holds the arguments, the locals of the function body, the library       *)
(* operations the call has executed so far (trace; each entry notes        *)
(* whether libsodium was initialized when it ran) and the returned Result. *)
(* pc is the index of the next statement in the function's statement list, *)
(* 0 after return.  The process-wide state is g: libsodium's initialized   *)
(* flag, the lock of sodium_init's critical section and the boxes sealed   *)
(* so far.  rnd holds what the random generators return when the           *)
(* statement asks them: rnd.salt to gen_salt(), rnd.nonce to gen_nonce();  *)
(* drawn notes what they did return to this call.                          *)
(***************************************************************************)
Pending == [ok |-> FALSE, val |-> <<>>, err |-> [kind |-> "pending", inner |-> "none"]]

NoQrData == [salt |-> <<>>, encrypted |-> <<>>]

NewCall(op, arg, password) ==
    [op |-> op, pc |-> 1, arg |-> arg, password |-> password,
     salt |-> <<>>, key |-> NoKey, compressed |-> <<>>, encrypted |-> <<>>,
     qr_data |-> NoQrData, packed |-> <<>>, decrypted |-> <<>>,
     drawn |-> [salt |-> <<>>, nonce |-> <<>>],
     trace |-> <<>>, result |-> Pending]

\* serialize with the salt generated before init, which InitializeOnce rejects
SerializeStagesSaltFirst ==
    <<"generate_salt", "init", "init_cs", "derive_key", "compress",
      "encrypt", "pack", "encode">>

\* the statements of serialize, in program order; crypto_utils::init() is
\* sodium_init: enter its critical section, then initialize and leave
SerializeStages ==
    <<"init", "init_cs", "generate_salt", "derive_key", "compress",
      "encrypt", "pack", "encode">>

\* deserialize deriving the key before it validates the salt, which
\* DecodeStageOrder rejects
DeserializeStagesKeyFirst ==
    <<"init", "init_cs", "decode", "unpack", "derive_key", "salt_from_slice",
      "decrypt", "decompress">>

\* the statements of deserialize, in program order
DeserializeStages ==
    <<"init", "init_cs", "decode", "unpack", "salt_from_slice", "derive_key",
      "decrypt", "decompress">>

\* a bare crypto_utils::init() call
InitStages == <<"init", "init_cs">>

StagesOf(c) ==
    IF c.op = "serialize" THEN SerializeStages
    ELSE IF c.op = "deserialize" THEN DeserializeStages
    ELSE InitStages

StageOf(c) == IF c.pc = 0 THEN "returned" ELSE StagesOf(c)[c.pc]

Traced(c, g, prim) ==
    [c EXCEPT !.trace = Append(@, [prim |-> prim, inited |-> g.initialized])]

\* fall through to the next statement; the function returns after its last
Advance(c) == [c EXCEPT !.pc = IF @ = Len(StagesOf(c)) THEN 0 ELSE @ + 1]

\* return r (an explicit return, or the ? operator on an Err)
Return(c, r) == [c EXCEPT !.pc = 0, !.result = r]

\* crypto_utils::init, src/crypto/mod.rs:20-22: sodium_init takes the lock,
\* initializes unless that is done, and releases the lock; expect() passes
InitEnter(c, g) == [c |-> Advance(c), g |-> [g EXCEPT !.lock = TRUE]]

InitCriticalSection(c, g) ==
    LET d == Traced(c, g, "sodium_init")
    IN  [c |-> IF c.op = "init" THEN Return(d, Ok(<<>>)) ELSE Advance(d),
         g |-> [g EXCEPT !.initialized = TRUE, !.lock = FALSE]]

\* let salt = generate_salt(); let key = derive_key(password, &salt)?;
SerGenerateSalt(c, g, rnd) ==
    [c |-> Advance(Traced([c EXCEPT !.salt = GenerateSalt(rnd.salt),
                                    !.drawn.salt = rnd.salt], g, "gen_salt")),
     g |-> g]

\* a derive_key that hashes first and tests the password afterwards, which
\* InvalidPasswordTrace rejects
CallDeriveKeyHashFirst(c, g) ==
    LET r == DeriveKey(c.password, c.salt)
    IN  [c |-> IF r.ok THEN Advance(Traced([c EXCEPT !.key = r.val], g, "argon2"))
               ELSE Return(Traced(c, g, "argon2"), Err(Crypto(r.err))),
         g |-> g]

\* derive_key returns InvalidPassword before it calls argon2
CallDeriveKey(c, g) ==
    LET r == DeriveKey(c.password, c.salt)
    IN  [c |-> IF r.ok THEN Advance(Traced([c EXCEPT !.key = r.val], g, "argon2"))
               ELSE IF r.err = "InvalidPassword" THEN Return(c, Err(Crypto(r.err)))
               ELSE Return(Traced(c, g, "argon2"), Err(Crypto(r.err))),
         g |-> g]

\* let compressed = zstd::encode_all(raw_data, 16).map_err(Compression)?;
SerCompress(c, g) ==
    LET r == Compress(c.arg)
    IN  [c |-> IF r.ok
               THEN Advance(Traced([c EXCEPT !.compressed = r.val], g, "zstd_encode"))
               ELSE Return(Traced(c, g, "zstd_encode"), Err(CompressionError)),
         g |-> g]

\* let encrypted = encrypt(&compressed, &key)?;
SerEncrypt(c, g, rnd) ==
    LET r == Encrypt(c.compressed, c.key, rnd.nonce)
        d == [Traced(Traced(c, g, "gen_nonce"), g, "seal") EXCEPT !.drawn.nonce = rnd.nonce]
    IN  [c |-> IF r.ok THEN Advance([d EXCEPT !.encrypted = r.val])
               ELSE Return(d, Err(Crypto(r.err))),
         g |-> [g EXCEPT !.sealed = @ \cup
                   {[key |-> c.key, nonce |-> rnd.nonce,
                     box |-> Seal(c.compressed, rnd.nonce, c.key)]}]]

\* let qr_data = QrData { salt: salt.0.to_vec(), encrypted };
\* let packed = rmp_serde::to_vec(&qr_data).map_err(Serialization)?;
SerPack(c, g) ==
    LET q == [salt |-> c.salt, encrypted |-> c.encrypted]
    IN  [c |-> Advance(Traced([c EXCEPT !.qr_data = q,
                                        !.packed = Pack(q.salt, q.encrypted)],
                              g, "rmp_encode")),
         g |-> g]

\* Ok(general_purpose::STANDARD.encode(packed))
SerEncode(c, g) ==
    [c |-> Return(Traced(c, g, "b64_encode"), Ok(B64Encode(c.packed))), g |-> g]

\* let packed = general_purpose::STANDARD.decode(input_string)?;
DeDecode(c, g) ==
    LET r == B64Decode(c.arg)
        d == Traced(c, g, "b64_decode")
    IN  [c |-> IF r.ok THEN Advance([d EXCEPT !.packed = r.val])
               ELSE Return(d, Err(Base64Error)),
         g |-> g]

\* let qr_data: QrData = rmp_serde::from_slice(&packed).map_err(Serialization)?;
DeUnpack(c, g) ==
    LET r == Unpack(c.packed)
        d == Traced(c, g, "rmp_decode")
    IN  [c |-> IF r.ok THEN Advance([d EXCEPT !.qr_data = r.val])
               ELSE Return(d, Err(SerializationError)),
         g |-> g]

\* let salt = Salt::from_slice(&qr_data.salt).ok_or(InvalidSalt)?;
DeSaltFromSlice(c, g) ==
    LET r == SaltFromSlice(c.qr_data.salt)
    IN  [c |-> IF r.ok THEN Advance([c EXCEPT !.salt = r.val])
               ELSE Return(c, Err(Crypto(r.err))),
         g |-> g]

\* let decrypted = decrypt(&qr_data.encrypted, &key)?;
\* (decrypt returns before secretbox::open when the blob is too short)
DeDecrypt(c, g) ==
    LET r == Decrypt(c.qr_data.encrypted, c.key, g.sealed)
        d == IF Len(c.qr_data.encrypted) < NONCEBYTES THEN c
             ELSE Traced(c, g, "open")
    IN  [c |-> IF r.ok THEN Advance([d EXCEPT !.decrypted = r.val])
               ELSE Return(d, Err(Crypto(r.err))),
         g |-> g]

\* let decompressed = zstd::decode_all(&decrypted[..]).map_err(Compression)?;
\* Ok(decompressed)
DeDecompress(c, g) ==
    LET r == Decompress(c.decrypted)
        d == Traced(c, g, "zstd_decode")
    IN  [c |-> IF r.ok THEN Return(d, Ok(r.val)) ELSE Return(d, Err(CompressionError)),
         g |-> g]

\* the next statement of call c
Step(c, g, rnd) ==
    LET st == StageOf(c)
    IN  CASE st = "init" -> InitEnter(c, g)
          [] st = "init_cs" -> InitCriticalSection(c, g)
          [] st = "generate_salt" -> SerGenerateSalt(c, g, rnd)
          [] st = "derive_key" -> CallDeriveKey(c, g)
          [] st = "compress" -> SerCompress(c, g)
          [] st = "encrypt" -> SerEncrypt(c, g, rnd)
          [] st = "pack" -> SerPack(c, g)
          [] st = "encode" -> SerEncode(c, g)
          [] st = "decode" -> DeDecode(c, g)
          [] st = "unpack" -> DeUnpack(c, g)
          [] st = "salt_from_slice" -> DeSaltFromSlice(c, g)
          [] st = "decrypt" -> DeDecrypt(c, g)
          [] st = "decompress" -> DeDecompress(c, g)

\* sodium_init blocks while another thread is inside its critical section
CanStep(c, g) == c.pc # 0 /\ (StageOf(c) = "init" => ~g.lock)

\* a call run from its first statement to its return, nothing interleaved
RECURSIVE Run(_, _, _)
Run(c, g, rnd) ==
    IF c.pc = 0 THEN [c |-> c, g |-> g]
    ELSE CHOOSE r \in {Run(n.c, n.g, rnd) : n \in {Step(c, g, rnd)}} : TRUE

\* the library operations a call has executed
Prims(c) == {c.trace[i].prim : i \in 1..Len(c.trace)}

(***************************************************************************)
(* The inputs the model draws from.                                        *)
(***************************************************************************)
\* the password length the UI admits, src/main.rs:79
MaxPasswordLen == 20

\* the empty password, a one-character one and one of the full length
Passwords == {<<>>, <<112>>, [i \in 1..MaxPasswordLen |-> 96 + i]}

\* file contents: empty, one byte, mixed bytes, a run of one byte
RawFiles == {<<>>, <<7>>, <<65, 200, 66>>, <<9, 9, 9, 9>>}

\* how many values each random generator can return
NumSalts == 2

NumNonces == 2

\* salt 1 has every byte below 128, the others have bytes from 128 on
SaltOf(k) == [i \in 1..SALTBYTES |-> ((k - 1) * 67 + 5 * i) % 256]

NonceOf(k) == [i \in 1..NONCEBYTES |-> ((k - 1) * 90 + 3 * i + 20) % 256]

Salts == {SaltOf(k) : k \in 1..NumSalts}

Nonces == {NonceOf(k) : k \in 1..NumNonces}

Rnds == [salt : Salts, nonce : Nonces]

\* strings no serialize call made: malformed text, text that is no record,
\* and records packed by hand around salts of every length class and
\* encrypted fields that are empty, shorter than a nonce, or never sealed
BadTexts == {<<>>, <<33, 33, 33, 33>>, <<81, 81>>, <<81, 85, 74, 68>>}

ForeignSalts == {<<>>, Take(SaltOf(1), SALTBYTES - 1), SaltOf(1), SaltOf(1) \o <<1>>}

ForeignBlobs == {<<>>, <<1, 2, 3>>, [i \in 1..(NONCEBYTES + MACBYTES + 10) |-> (9 * i) % 256]}

ForeignTexts ==
    BadTexts \cup {B64Encode(Pack(s, e)) : s \in ForeignSalts, e \in ForeignBlobs}

\* bs with the byte at index i replaced by v
ReplaceAt(bs, i, v) == [bs EXCEPT ![i] = v]

\* the transport strings of the record of text with one byte of its
\* encrypted field changed: in the nonce, in the tag, in the ciphertext
TamperedTexts(text) ==
    LET q == Unpack(B64Decode(text).val).val
        n == Len(q.encrypted)
    IN  {B64Encode(Pack(q.salt, ReplaceAt(q.encrypted, i, (q.encrypted[i] + 1) % 256))) :
            i \in {1, NONCEBYTES + 1, n}}

(***************************************************************************)
(* State.                                                                  *)
(***************************************************************************)
VARIABLES
    initialized,    \* libsodium's process-wide flag, set by sodium_init
    lock,           \* TRUE while a thread is inside sodium_init
    sealed,         \* the boxes secretbox::seal has produced
    calls,          \* the codec calls clients made, in the order they started
    app,            \* QrApp, the state of the window
    inflight,       \* the tasks iced runs and the messages it has yet to deliver
    gens            \* the runs of generate_qr_async so far, in order

codec == <<initialized, lock, sealed, calls>>

ui == <<app, inflight, gens>>

vars == <<initialized, lock, sealed, calls, app, inflight, gens>>

G == [initialized |-> initialized, lock |-> lock, sealed |-> sealed]

SetG(g) ==
    /\ initialized' = g.initialized
    /\ lock' = g.lock
    /\ sealed' = g.sealed

None == [some |-> FALSE, val |-> <<>>]

Some(v) == [some |-> TRUE, val |-> v]

\* QrApp::default(), src/main.rs:46-53 and 61-74
NewApp(password, filename) ==
    [password |-> password, filename |-> filename, qr_display |-> None,
     read_window |-> None, error_message |-> None, is_processing |-> FALSE]

Init ==
    /\ initialized = FALSE
    /\ lock = FALSE
    /\ sealed = {}
    /\ calls = <<>>
    /\ app = NewApp(<<>>, "")
    /\ inflight = <<>>
    /\ gens = <<>>

\* the transport strings the serialize calls made so far have returned
Outputs ==
    {calls[i].result.val : i \in {j \in 1..Len(calls) :
        calls[j].op = "serialize" /\ calls[j].pc = 0 /\ calls[j].result.ok}}

\* a transport string whose record the model reads (ModelledRecord)
ModelledText(text) ==
    LET d == B64Decode(text) IN d.ok => ModelledRecord(d.val)

(***************************************************************************)
(* Spec: a client calls serialize once, on any file and password, and      *)
(* deserialize once, on the string it got back, on that string with one    *)
(* byte of the encrypted field changed, or on a foreign string, with any   *)
(* password.  Each call runs alone, from entry to return.                  *)
(***************************************************************************)
CallSerialize(raw, password) ==
    \E rnd \in Rnds :
        \E r \in {Run(NewCall("serialize", raw, password), G, rnd)} :
            /\ calls' = Append(calls, r.c)
            /\ SetG(r.g)
            /\ UNCHANGED ui

CallDeserialize(text, password) ==
    \E r \in {Run(NewCall("deserialize", text, password), G, CHOOSE rnd \in Rnds : TRUE)} :
        /\ calls' = Append(calls, r.c)
        /\ SetG(r.g)
        /\ UNCHANGED ui

Next ==
    \/ \E raw \in RawFiles, password \in Passwords :
        calls = <<>> /\ CallSerialize(raw, password)
    \/ \E password \in Passwords :
        /\ \A i \in 1..Len(calls) : calls[i].op = "serialize"
        /\ \E text \in ForeignTexts \cup Outputs \cup UNION {TamperedTexts(t) : t \in Outputs} :
            ModelledText(text) /\ CallDeserialize(text, password)

Spec == Init /\ [][Next]_vars

(***************************************************************************)
(* Properties of Spec.                                                     *)
(***************************************************************************)
Returned(op) == {i \in 1..Len(calls) : calls[i].op = op /\ calls[i].pc = 0}

InvalidPassword == Err(Crypto("InvalidPassword"))

DecryptionFailed == Err(Crypto("DecryptionFailed"))

InvalidSalt == Err(Crypto("InvalidSalt"))

\* C1: for every non-empty file b and non-empty password p of at most 20
\* bytes, whatever salt and nonce serialize draws, serialize(b, p) succeeds
\* and deserialize of its result with p returns exactly b.
RoundTrip ==
    \A i \in Returned("serialize") :
        (/\ calls[i].arg # <<>>
         /\ calls[i].password # <<>>
         /\ Len(calls[i].password) <= MaxPasswordLen)
        => /\ calls[i].result.ok
           /\ \A j \in Returned("deserialize") :
                (/\ calls[j].arg = calls[i].result.val
                 /\ calls[j].password = calls[i].password)
                => calls[j].result = Ok(calls[i].arg)

RoundTripReached ==
    /\ Returned("serialize") = {1}
    /\ Returned("deserialize") = {2}
    /\ calls[1].arg = <<65, 200, 66>>
    /\ Len(calls[1].password) = MaxPasswordLen
    /\ calls[1].drawn.salt = SaltOf(2)
    /\ calls[1].result.ok
    /\ calls[2].arg = calls[1].result.val
    /\ calls[2].password = calls[1].password
    /\ calls[2].result = Ok(<<65, 200, 66>>)

\* C2: for any file b and any two different non-empty passwords p1 and p2,
\* deserialize(serialize(b, p1), p2) fails with Crypto(DecryptionFailed) and
\* so returns no byte sequence at all.
WrongPasswordFails ==
    \A i \in Returned("serialize"), j \in Returned("deserialize") :
        (/\ calls[i].result.ok
         /\ calls[j].arg = calls[i].result.val
         /\ calls[i].password # <<>>
         /\ calls[j].password # <<>>
         /\ calls[j].password # calls[i].password)
        => calls[j].result = DecryptionFailed

WrongPasswordReached ==
    /\ Returned("serialize") = {1}
    /\ Returned("deserialize") = {2}
    /\ calls[1].result.ok
    /\ calls[1].password = <<112>>
    /\ calls[2].arg = calls[1].result.val
    /\ Len(calls[2].password) = MaxPasswordLen
    /\ "open" \in Prims(calls[2])
    /\ calls[2].result = DecryptionFailed

\* C3 as stated: every serialize and every deserialize call with the empty
\* password fails with InvalidPassword, whatever its other argument.
EmptyPasswordAlwaysInvalid ==
    \A i \in 1..Len(calls) :
        (calls[i].pc = 0 /\ calls[i].password = <<>>) => calls[i].result = InvalidPassword

\* what deserialize does with its input before it looks at the password
BeforeDeriveKey(text) ==
    IF ~B64Decode(text).ok THEN Err(Base64Error)
    ELSE IF ~Unpack(B64Decode(text).val).ok THEN Err(SerializationError)
    ELSE IF Len(Unpack(B64Decode(text).val).val.salt) # SALTBYTES THEN InvalidSalt
    ELSE Ok(<<>>)

\* C3, amended: serialize(b, "") fails with InvalidPassword for every b;
\* deserialize(s, "") fails with InvalidPassword when s is valid base64 of a
\* well-formed record whose salt has the fixed length, and otherwise with the
\* error of the earlier stage that rejects s: Base64, Serialization or
\* InvalidSalt.
EmptyPasswordOutcome ==
    /\ \A i \in Returned("serialize") :
        calls[i].password = <<>> => calls[i].result = InvalidPassword
    /\ \A j \in Returned("deserialize") :
        calls[j].password = <<>> =>
            calls[j].result =
                IF BeforeDeriveKey(calls[j].arg).ok THEN InvalidPassword
                ELSE BeforeDeriveKey(calls[j].arg)

EmptyPasswordReached ==
    /\ Returned("serialize") = {1}
    /\ Returned("deserialize") = {2}
    /\ calls[1].password = <<>>
    /\ calls[1].result = InvalidPassword
    /\ calls[2].password = <<>>
    /\ BeforeDeriveKey(calls[2].arg).ok
    /\ calls[2].result = InvalidPassword

\* C6: decrypt returns the plaintext that was sealed or fails with
\* DecryptionFailed, nothing else: a blob shorter than a nonce, a wrong key
\* and a changed nonce, tag or ciphertext all give that one value, and
\* deserialize passes it on unchanged.
DecryptSingleFailure ==
    \A j \in Returned("deserialize") :
        calls[j].key # NoKey =>
            \E r \in {Decrypt(calls[j].qr_data.encrypted, calls[j].key, sealed)} :
                /\ ~r.ok => r.err = "DecryptionFailed" /\ calls[j].result = DecryptionFailed
                /\ r.ok =>
                    /\ calls[j].decrypted = r.val
                    /\ \E i \in Returned("serialize") :
                        /\ calls[i].key = calls[j].key
                        /\ calls[i].encrypted = calls[j].qr_data.encrypted
                        /\ calls[i].compressed = r.val

DecryptShortBlobReached ==
    /\ Returned("deserialize") = {Len(calls)}
    /\ calls[Len(calls)].key # NoKey
    /\ Len(calls[Len(calls)].qr_data.encrypted) \in 1..(NONCEBYTES - 1)
    /\ "open" \notin Prims(calls[Len(calls)])
    /\ calls[Len(calls)].result = DecryptionFailed

\* C7 as stated: a call that returns InvalidPassword has executed no salt
\* generation, key derivation, encryption or decryption.
NoPrimitiveBeforeInvalidPassword ==
    \A i \in 1..Len(calls) :
        calls[i].result = InvalidPassword =>
            Prims(calls[i]) \cap {"gen_salt", "argon2", "gen_nonce", "seal", "open"} = {}

\* C7, amended: a call that returns InvalidPassword has executed no key
\* derivation, no encryption and no decryption; deserialize has generated no
\* salt either, but serialize has initialized libsodium and generated a salt
\* (and nothing else) before derive_key rejects the password.
InvalidPasswordTrace ==
    \A i \in 1..Len(calls) :
        calls[i].result = InvalidPassword =>
            /\ Prims(calls[i]) \cap {"argon2", "gen_nonce", "seal", "open"} = {}
            /\ calls[i].op = "deserialize" => "gen_salt" \notin Prims(calls[i])
            /\ calls[i].op = "serialize" =>
                [k \in 1..Len(calls[i].trace) |-> calls[i].trace[k].prim]
                    = <<"sodium_init", "gen_salt">>

InvalidPasswordTraceReached ==
    /\ Returned("serialize") = {1}
    /\ calls[1].password = <<>>
    /\ calls[1].result = InvalidPassword
    /\ Prims(calls[1]) = {"sodium_init", "gen_salt"}
    /\ Len(calls) = 2
    /\ calls[2].result = InvalidPassword
    /\ Prims(calls[2]) = {"sodium_init", "b64_decode", "rmp_decode"}

\* C9: when deserialize unpacks a well-formed record whose salt is not
\* SALTBYTES long (empty, shorter or longer), it fails with InvalidSalt for
\* every non-empty password and every encrypted field, and runs neither the
\* key derivation nor the decryption.
SaltValidation ==
    \A j \in Returned("deserialize") :
        (/\ calls[j].password # <<>>
         /\ B64Decode(calls[j].arg).ok
         /\ Unpack(B64Decode(calls[j].arg).val).ok
         /\ Len(Unpack(B64Decode(calls[j].arg).val).val.salt) # SALTBYTES)
        => /\ calls[j].result = InvalidSalt
           /\ Prims(calls[j]) \cap {"argon2", "open"} = {}

SaltValidationReached ==
    /\ Returned("deserialize") = {Len(calls)}
    /\ calls[Len(calls)].password # <<>>
    /\ Len(calls[Len(calls)].qr_data.salt) = SALTBYTES + 1
    /\ Len(calls[Len(calls)].qr_data.encrypted) > NONCEBYTES + MACBYTES
    /\ calls[Len(calls)].result = InvalidSalt

(***************************************************************************)
(* SpecFresh: a client calls serialize again and again, each call on any   *)
(* of two files with any password; every call asks the random generators   *)
(* anew.                                                                   *)
(***************************************************************************)
MaxCalls == 2

FreshFiles == {<<>>, <<7>>}

NextFresh ==
    \E raw \in FreshFiles, password \in Passwords :
        Len(calls) < MaxCalls /\ CallSerialize(raw, password)

SpecFresh == Init /\ [][NextFresh]_vars

(***************************************************************************)
(* Properties of SpecFresh.                                                *)
(***************************************************************************)
Count(c, prim) == Cardinality({k \in 1..Len(c.trace) : c.trace[k].prim = prim})

\* the record a transport string carries
RecordOf(text) == Unpack(B64Decode(text).val).val

\* C5 as stated: over any sequence of serialize calls no two calls use the
\* same salt or the same (key, nonce) pair, and any two calls return
\* different transport strings.
AlwaysFresh ==
    \A i \in Returned("serialize"), j \in Returned("serialize") :
        i # j =>
            /\ calls[i].salt # calls[j].salt
            /\ (calls[i].result.ok /\ calls[j].result.ok) =>
                /\ <<calls[i].key, calls[i].drawn.nonce>> # <<calls[j].key, calls[j].drawn.nonce>>
                /\ calls[i].result.val # calls[j].result.val

\* C5, amended: every serialize call asks the generators once for a salt and
\* (when it gets as far as encrypting) once for a nonce, uses exactly the
\* values they return to it and puts them into its transport string, so two
\* calls whose draws differ in the salt or in the nonce return different
\* strings; nothing but the generators keeps two calls from drawing the same
\* values, and then (same file, same password) returning the same string.
FreshDraws ==
    /\ \A i \in Returned("serialize") :
        /\ Count(calls[i], "gen_salt") = 1
        /\ calls[i].salt = calls[i].drawn.salt
        /\ calls[i].result.ok =>
            /\ Count(calls[i], "gen_nonce") = 1
            /\ RecordOf(calls[i].result.val).salt = calls[i].drawn.salt
            /\ Take(RecordOf(calls[i].result.val).encrypted, NONCEBYTES)
                    = calls[i].drawn.nonce
    /\ \A i \in Returned("serialize"), j \in Returned("serialize") :
        (/\ calls[i].result.ok
         /\ calls[j].result.ok
         /\ calls[i].drawn # calls[j].drawn)
        => calls[i].result.val # calls[j].result.val

FreshDrawsReached ==
    /\ Returned("serialize") = {1, 2}
    /\ calls[1].arg = calls[2].arg
    /\ calls[1].password = calls[2].password
    /\ calls[1].result.ok
    /\ calls[2].result.ok
    /\ calls[1].drawn.salt = calls[2].drawn.salt
    /\ calls[1].drawn.nonce # calls[2].drawn.nonce
    /\ calls[1].result.val # calls[2].result.val

(***************************************************************************)
(* SpecCorrupt: a transport string that serialize returned has one byte of *)
(* its decoded record replaced by any other value, is encoded again and    *)
(* given to deserialize with the password it was made with.                *)
(***************************************************************************)
CorruptFile == <<7>>

CorruptPassword == <<112>>

G0 == [initialized |-> FALSE, lock |-> FALSE, sealed |-> {}]

InitCorrupt ==
    \E salt \in Salts :
        LET r == Run(NewCall("serialize", CorruptFile, CorruptPassword), G0,
                     [salt |-> salt, nonce |-> NonceOf(1)])
        IN  /\ calls = <<r.c>>
            /\ initialized = r.g.initialized
            /\ lock = r.g.lock
            /\ sealed = r.g.sealed
            /\ app = NewApp(<<>>, "")
            /\ inflight = <<>>
            /\ gens = <<>>

Tamper(i, v) ==
    /\ Len(calls) = 1
    /\ v # calls[1].packed[i]
    /\ \E record \in {ReplaceAt(calls[1].packed, i, v)} :
        /\ ModelledRecord(record)
        /\ CallDeserialize(B64Encode(record), calls[1].password)

\* the positions of the record, while it has not been tampered with
TamperPositions == IF Len(calls) = 1 THEN 1..Len(calls[1].packed) ELSE {}

NextCorrupt ==
    \E i \in TamperPositions, v \in Byte : Tamper(i, v)

SpecCorrupt == InitCorrupt /\ [][NextCorrupt]_vars

(***************************************************************************)
(* Properties of SpecCorrupt.                                              *)
(***************************************************************************)
\* C4 as stated: after any single byte of the decoded record is changed,
\* deserialize with the right password fails, with a Serialization error or
\* with DecryptionFailed.
TamperAlwaysFails ==
    Len(calls) = 2 => calls[2].result \in {Err(SerializationError), DecryptionFailed}

\* C4, amended: after any single byte of the decoded record is changed,
\* deserialize with the right password never returns anything but the
\* original file: it fails with a Serialization error or with
\* DecryptionFailed, or the changed byte only re-spells the header of a field
\* (array marker to bin marker over the same bytes), the record read is the
\* one that was written, and deserialize succeeds with exactly b.
TamperNeverWrongOutput ==
    Len(calls) = 2 =>
        IF calls[2].result.ok
        THEN /\ calls[2].result.val = calls[1].arg
             /\ calls[2].qr_data = calls[1].qr_data
        ELSE calls[2].result \in {Err(SerializationError), DecryptionFailed}

TamperedTagReached ==
    /\ Len(calls) = 2
    /\ calls[2].qr_data.salt = calls[1].qr_data.salt
    /\ Len(calls[2].qr_data.encrypted) = Len(calls[1].qr_data.encrypted)
    /\ Take(calls[2].qr_data.encrypted, NONCEBYTES) = Take(calls[1].qr_data.encrypted, NONCEBYTES)
    /\ calls[2].qr_data.encrypted[NONCEBYTES + 1] # calls[1].qr_data.encrypted[NONCEBYTES + 1]
    /\ "open" \in Prims(calls[2])
    /\ calls[2].result = DecryptionFailed

(***************************************************************************)
(* SpecConc: up to MaxThreads threads each make one call (serialize,       *)
(* deserialize or a bare crypto_utils::init) and run it statement by       *)
(* statement, interleaved in any order.                                    *)
(***************************************************************************)
MaxThreads == 2

ConcCalls ==
    {NewCall("serialize", <<7>>, <<112>>),
     NewCall("serialize", <<7>>, <<>>),
     NewCall("deserialize", B64Encode(Pack(SaltOf(1), [i \in 1..(NONCEBYTES + MACBYTES + 10) |-> (9 * i) % 256])), <<112>>),
     NewCall("deserialize", <<33, 33, 33, 33>>, <<112>>),
     NewCall("init", <<>>, <<>>)}

StartCall(c) ==
    /\ Len(calls) < MaxThreads
    /\ calls' = Append(calls, c)
    /\ UNCHANGED <<initialized, lock, sealed, ui>>

\* a step in which the password comes from a buffer that the first call of
\* the process filled, which CallIndependence rejects
StepCallSharedPassword(i) ==
    /\ CanStep(calls[i], G)
    /\ \E rnd \in Rnds :
        \E n \in {Step([calls[i] EXCEPT !.password = calls[1].password], G, rnd)} :
            /\ calls' = [calls EXCEPT ![i] = [n.c EXCEPT !.password = calls[i].password]]
            /\ SetG(n.g)
            /\ UNCHANGED ui

StepCall(i) ==
    /\ CanStep(calls[i], G)
    /\ \E rnd \in Rnds :
        \E n \in {Step(calls[i], G, rnd)} :
            /\ calls' = [calls EXCEPT ![i] = n.c]
            /\ SetG(n.g)
            /\ UNCHANGED ui

NextConc ==
    \/ \E c \in ConcCalls : StartCall(c)
    \/ \E i \in 1..Len(calls) : StepCall(i)

SpecConc == Init /\ [][NextConc]_vars

(***************************************************************************)
(* Properties of SpecConc.                                                 *)
(***************************************************************************)
\* the libsodium operations that need the library initialized
SodiumPrims == {"gen_salt", "argon2", "gen_nonce", "seal", "open"}

InitializedBeforeUse ==
    \A i \in 1..Len(calls) : \A k \in 1..Len(calls[i].trace) :
        calls[i].trace[k].prim \in SodiumPrims => calls[i].trace[k].inited

\* every init call that has come out of sodium_init has left the library
\* initialized and the lock free for the next one, and has returned normally
InitReturns ==
    /\ \A i \in 1..Len(calls) :
        /\ Count(calls[i], "sodium_init") = 1 => initialized
        /\ (calls[i].op = "init" /\ calls[i].pc = 0) => calls[i].result = Ok(<<>>)
    /\ lock => \E i \in 1..Len(calls) : StageOf(calls[i]) = "init_cs"

\* C10: under any interleaving of concurrent serialize, deserialize and init
\* calls, no salt generation, key derivation, encryption or decryption runs
\* before libsodium is initialized; init calls, repeated or concurrent, are
\* idempotent: once initialized the library stays initialized, and every
\* init call comes out of sodium_init and returns normally.
InitializeOnce ==
    /\ [](InitializedBeforeUse /\ InitReturns)
    /\ [][initialized => initialized']_vars

ConcurrentInitReached ==
    /\ Len(calls) = 2
    /\ calls[1].pc = 0
    /\ calls[2].pc = 0
    /\ calls[1].op = "serialize"
    /\ calls[1].result.ok
    /\ calls[2].op = "deserialize"
    /\ "open" \in Prims(calls[2])
    /\ calls[2].trace[1] = [prim |-> "sodium_init", inited |-> FALSE]
    /\ calls[1].trace[1] = [prim |-> "sodium_init", inited |-> TRUE]

(***************************************************************************)
(* generate_qr_async (src/main.rs:352-373) and the handlers of QrApp::     *)
(* update that start it and take its result (src/main.rs:104-136).         *)
(***************************************************************************)
MAX_QR_BYTES == 2953

\* the bytes a version-40 symbol holds at error correction level L, which is
\* what QrCode::with_error_correction_level can fit
QrCapacity == 2953

LargeFileLen == 1411

\* a file that zstd cannot shrink, of a size at the edge of the size policy
LargeFile == [i \in 1..LargeFileLen |-> (37 * i + 11) % 256]

Filenames == {"", "missing.bin", "small.bin", "large.bin"}

\* tokio::fs::read
ReadFile(filename) ==
    IF filename = "small.bin" THEN Ok(<<7>>)
    ELSE IF filename = "large.bin" THEN Ok(LargeFile)
    ELSE Err("NotFound")

\* qr::service::generate_qr_image: the PNG of the symbol of data
GenerateQrImage(data) ==
    IF Len(data) <= QrCapacity THEN Ok([png_of |-> data]) ELSE Err("GenerationFailed")

NoResult == [qr_text |-> <<>>, qr_image |-> [png_of |-> <<>>]]

\* the Err(String) values of generate_qr_async; len is the length the
\* message quotes, 0 where it quotes none
Failed(kind, len) ==
    [ok |-> FALSE, val |-> NoResult, err |-> [kind |-> kind, len |-> len]]

\* what a run did: whether the file was read, what serialize returned and
\* whether generate_qr_image was called
GenLog(filename, password, read_ok, serialized, rendered, result) ==
    [filename |-> filename, password |-> password, read_ok |-> read_ok,
     serialized_ok |-> serialized.ok, serialized_err |-> serialized.err,
     len |-> Len(serialized.val), rendered |-> rendered,
     result_ok |-> result.ok, result_err |-> result.err.kind]

\* generate_qr_async after serialize, without the size test, which SizePolicy
\* rejects
AfterSerializeNoLimit(filename, password, serialized, g) ==
    IF ~serialized.ok
    THEN [result |-> Failed("Serialize", 0), g |-> g,
          log |-> GenLog(filename, password, TRUE, serialized, FALSE, Failed("Serialize", 0))]
    ELSE CHOOSE out \in
            {IF image.ok
             THEN [result |-> [ok |-> TRUE,
                               val |-> [qr_text |-> serialized.val, qr_image |-> image.val],
                               err |-> [kind |-> "none", len |-> 0]],
                   g |-> g,
                   log |-> GenLog(filename, password, TRUE, serialized, TRUE, Ok(<<>>))]
             ELSE [result |-> Failed("Render", 0), g |-> g,
                   log |-> GenLog(filename, password, TRUE, serialized, TRUE, Failed("Render", 0))] :
             image \in {GenerateQrImage(serialized.val)}} : TRUE

\* generate_qr_async once its file is read and serialize has returned:
\* the error of serialize, the size test, the renderer
AfterSerialize(filename, password, serialized, g) ==
    IF ~serialized.ok
    THEN [result |-> Failed("Serialize", 0), g |-> g,
          log |-> GenLog(filename, password, TRUE, serialized, FALSE, Failed("Serialize", 0))]
    ELSE IF Len(serialized.val) >= MAX_QR_BYTES
    THEN [result |-> Failed("TooLarge", Len(serialized.val)), g |-> g,
          log |-> GenLog(filename, password, TRUE, serialized, FALSE,
                         Failed("TooLarge", Len(serialized.val)))]
    ELSE CHOOSE out \in
            {IF image.ok
             THEN [result |-> [ok |-> TRUE,
                               val |-> [qr_text |-> serialized.val, qr_image |-> image.val],
                               err |-> [kind |-> "none", len |-> 0]],
                   g |-> g,
                   log |-> GenLog(filename, password, TRUE, serialized, TRUE, Ok(<<>>))]
             ELSE [result |-> Failed("Render", 0), g |-> g,
                   log |-> GenLog(filename, password, TRUE, serialized, TRUE, Failed("Render", 0))] :
             image \in {GenerateQrImage(serialized.val)}} : TRUE

\* generate_qr_async(filename, password): the Result it returns, the
\* process-wide state it leaves and the log of the run
GenerateQrAsync(filename, password, g, rnd) ==
    IF ~ReadFile(filename).ok
    THEN [result |-> Failed("Read", 0), g |-> g,
          log |-> GenLog(filename, password, FALSE, Pending, FALSE, Failed("Read", 0))]
    ELSE CHOOSE out \in
            {AfterSerialize(filename, password, r.c.result, r.g) :
             r \in {Run(NewCall("serialize", ReadFile(filename).val, password), g, rnd)}} : TRUE

\* a task or a message on its way to update
Msg(kind, filename, password, result) ==
    [kind |-> kind, filename |-> filename, password |-> password, result |-> result]

Without(q, k) == SubSeq(q, 1, k - 1) \o SubSeq(q, k + 1, Len(q))

\* the generations started so far: finished ones and tasks still to run
MaxGens == 2

Started ==
    Len(gens) + Cardinality({k \in 1..Len(inflight) : inflight[k].kind = "generate_qr_async"})

UiError(kind) == [kind |-> kind, len |-> 0]

\* a GenerateQr that does not look at the password, which InputGuards rejects
GenerateQrUnguarded ==
    /\ ~app.is_processing
    /\ Started < MaxGens
    /\ IF app.filename = ""
       THEN /\ app' = [app EXCEPT !.error_message = Some(UiError("NoFile"))]
            /\ UNCHANGED inflight
       ELSE /\ app' = [app EXCEPT !.is_processing = TRUE, !.error_message = None]
            /\ inflight' = Append(inflight,
                    Msg("generate_qr_async", app.filename, app.password, Failed("none", 0)))
    /\ UNCHANGED <<initialized, lock, sealed, calls, gens>>

\* Message::GenerateQr, src/main.rs:104-123; the button sends it only
\* while is_processing is false (src/main.rs:251-260)
GenerateQr ==
    /\ ~app.is_processing
    /\ Started < MaxGens
    /\ IF app.password = <<>>
       THEN /\ app' = [app EXCEPT !.error_message = Some(UiError("NoPassword"))]
            /\ UNCHANGED inflight
       ELSE IF app.filename = ""
       THEN /\ app' = [app EXCEPT !.error_message = Some(UiError("NoFile"))]
            /\ UNCHANGED inflight
       ELSE /\ app' = [app EXCEPT !.is_processing = TRUE, !.error_message = None]
            /\ inflight' = Append(inflight,
                    Msg("generate_qr_async", app.filename, app.password, Failed("none", 0)))
    /\ UNCHANGED <<initialized, lock, sealed, calls, gens>>

\* the task Task::perform runs: generate_qr_async(filename, password)
RunGenerateQrAsync(k) ==
    /\ inflight[k].kind = "generate_qr_async"
    /\ \E rnd \in Rnds :
        \E out \in {GenerateQrAsync(inflight[k].filename, inflight[k].password, G, rnd)} :
            /\ inflight' = Append(Without(inflight, k),
                    Msg("QrGenerated", inflight[k].filename, inflight[k].password, out.result))
            /\ SetG(out.g)
            /\ gens' = Append(gens, out.log)
            /\ UNCHANGED <<calls, app>>

\* a QrGenerated that leaves is_processing set after a failure, which
\* SingleGeneration rejects
QrGeneratedKeepsProcessing(k) ==
    /\ inflight[k].kind = "QrGenerated"
    /\ IF inflight[k].result.ok
       THEN /\ app' = [app EXCEPT !.is_processing = FALSE]
            /\ inflight' = Append(Without(inflight, k),
                    [inflight[k] EXCEPT !.kind = "ShowQrDisplay"])
       ELSE /\ app' = [app EXCEPT !.error_message = Some(inflight[k].result.err)]
            /\ inflight' = Without(inflight, k)
    /\ UNCHANGED <<initialized, lock, sealed, calls, gens>>

\* Message::QrGenerated(Ok(result)) and (Err(e)), src/main.rs:124-132
QrGenerated(k) ==
    /\ inflight[k].kind = "QrGenerated"
    /\ IF inflight[k].result.ok
       THEN /\ app' = [app EXCEPT !.is_processing = FALSE]
            /\ inflight' = Append(Without(inflight, k),
                    [inflight[k] EXCEPT !.kind = "ShowQrDisplay"])
       ELSE /\ app' = [app EXCEPT !.is_processing = FALSE,
                                  !.error_message = Some(inflight[k].result.err)]
            /\ inflight' = Without(inflight, k)
    /\ UNCHANGED <<initialized, lock, sealed, calls, gens>>

\* a ShowQrDisplay that drops the result, which GenerationCompletes rejects
ShowQrDisplayDropped(k) ==
    /\ inflight[k].kind = "ShowQrDisplay"
    /\ inflight' = Without(inflight, k)
    /\ UNCHANGED <<initialized, lock, sealed, calls, app, gens>>

\* Message::ShowQrDisplay(result), src/main.rs:133-136
ShowQrDisplay(k) ==
    /\ inflight[k].kind = "ShowQrDisplay"
    /\ app' = [app EXCEPT !.qr_display = Some(inflight[k].result.val)]
    /\ inflight' = Without(inflight, k)
    /\ UNCHANGED <<initialized, lock, sealed, calls, gens>>

(***************************************************************************)
(* SpecGen: the user has typed a password (or none) and chosen a file (or  *)
(* none) and presses Generate QR, up to MaxGens times; iced runs the task  *)
(* and delivers its messages.                                              *)
(***************************************************************************)
InitGen ==
    /\ initialized = FALSE
    /\ lock = FALSE
    /\ sealed = {}
    /\ calls = <<>>
    /\ \E password \in Passwords, filename \in Filenames : app = NewApp(password, filename)
    /\ inflight = <<>>
    /\ gens = <<>>

NextGen ==
    \/ GenerateQr
    \/ \E k \in 1..Len(inflight) : RunGenerateQrAsync(k)
    \/ \E k \in 1..Len(inflight) : QrGenerated(k)
    \/ \E k \in 1..Len(inflight) : ShowQrDisplay(k)

SpecGen == InitGen /\ [][NextGen]_vars

(***************************************************************************)
(* Properties of SpecGen.                                                  *)
(***************************************************************************)
\* C8: serialize never fails because of the length of its output, and
\* generate_qr_async hands the transport string to the renderer, and returns
\* a QrGenerationResult, exactly when the string is shorter than 2953; a
\* string of 2953 characters or more gives an error, and no image of it is
\* rendered or displayed.
SizePolicy ==
    /\ \A k \in 1..Len(gens) :
        /\ (gens[k].read_ok /\ gens[k].password # <<>>) => gens[k].serialized_ok
        /\ gens[k].rendered <=> (gens[k].serialized_ok /\ gens[k].len < MAX_QR_BYTES)
        /\ gens[k].result_ok <=> gens[k].rendered
        /\ (gens[k].serialized_ok /\ gens[k].len >= MAX_QR_BYTES)
            => gens[k].result_err = "TooLarge"
    /\ \A k \in 1..Len(inflight) :
        inflight[k].result.ok => Len(inflight[k].result.val.qr_text) < MAX_QR_BYTES
    /\ app.qr_display.some => Len(app.qr_display.val.qr_text) < MAX_QR_BYTES

SizePolicyReached ==
    /\ Len(gens) = 2
    /\ gens[1].len = MAX_QR_BYTES - 1
    /\ gens[1].rendered
    /\ app.qr_display.some
    /\ Len(app.qr_display.val.qr_text) = MAX_QR_BYTES - 1
    /\ gens[2].serialized_ok
    /\ gens[2].len >= MAX_QR_BYTES
    /\ ~gens[2].rendered
    /\ app.error_message.some
    /\ app.error_message.val.kind = "TooLarge"

(***************************************************************************)
(* SpecIndep: threads make serialize and deserialize calls with different  *)
(* files and passwords and run them statement by statement, interleaved in *)
(* any order.  One transport string was made before (EarlierCall), so that *)
(* a deserialize call has a string to succeed on.                          *)
(***************************************************************************)
EarlierCall ==
    Run(NewCall("serialize", <<9, 9, 9, 9>>, <<112>>), G0,
        [salt |-> SaltOf(1), nonce |-> NonceOf(1)])

\* the process-wide state a call starts in when nothing runs beside it
GAlone == [G0 EXCEPT !.sealed = EarlierCall.g.sealed]

IndepCalls ==
    {NewCall("serialize", <<7>>, <<112>>),
     NewCall("serialize", <<65, 200, 66>>, [i \in 1..MaxPasswordLen |-> 96 + i]),
     NewCall("deserialize", EarlierCall.c.result.val, <<112>>),
     NewCall("deserialize", EarlierCall.c.result.val, [i \in 1..MaxPasswordLen |-> 96 + i])}

InitIndep ==
    /\ initialized = FALSE
    /\ lock = FALSE
    /\ sealed = GAlone.sealed
    /\ calls = <<>>
    /\ app = NewApp(<<>>, "")
    /\ inflight = <<>>
    /\ gens = <<>>

NextIndep ==
    \/ \E c \in IndepCalls : StartCall(c)
    \/ \E i \in 1..Len(calls) : StepCall(i)

SpecIndep == InitIndep /\ [][NextIndep]_vars

(***************************************************************************)
(* Properties of SpecIndep.                                                *)
(***************************************************************************)
\* a call record without the notes of whether libsodium was initialized
Locals(c) == [c EXCEPT !.trace = [k \in 1..Len(c.trace) |-> c.trace[k].prim]]

\* the call c run alone, from entry to return, on the inputs of c and with
\* the salt and nonce that c drew
Alone(c) == Run(NewCall(c.op, c.arg, c.password), GAlone, c.drawn).c

ReturnsAsAlone ==
    \A i \in 1..Len(calls) :
        calls[i].pc = 0 => Locals(calls[i]) = Locals(Alone(calls[i]))

\* a step changes one call, and makes of it what the call's next statement
\* makes of the call's own record and the library state
StepsOwnRecord ==
    \A i \in 1..Len(calls) :
        calls'[i] # calls[i] =>
            /\ \A j \in 1..Len(calls) : j # i => calls'[j] = calls[j]
            /\ \E rnd \in Rnds : calls'[i] = Step(calls[i], G, rnd).c

\* C11: serialize and deserialize calls run concurrently, in any
\* interleaving, each return the result (and compute the locals, and execute
\* the operations) they return when run alone on the same inputs, salt and
\* nonce; a step of one call changes no password, salt, key or buffer of
\* another call.
CallIndependence ==
    /\ []ReturnsAsAlone
    /\ [][StepsOwnRecord]_vars

\* a serialize and a deserialize call with different passwords, the second
\* started while the first ran, both returned Ok
InterleavedCallsReached ==
    /\ Len(calls) = 2
    /\ calls[1].pc = 0
    /\ calls[2].pc = 0
    /\ calls[1].op = "serialize"
    /\ calls[2].op = "deserialize"
    /\ calls[1].password # calls[2].password
    /\ calls[1].result.ok
    /\ calls[2].result = Ok(<<9, 9, 9, 9>>)
    /\ calls[2].trace[1] = [prim |-> "sodium_init", inited |-> FALSE]
    /\ calls[1].trace[1] = [prim |-> "sodium_init", inited |-> TRUE]

(***************************************************************************)
(* SpecDecode: one deserialize call, run statement by statement, on a      *)
(* string that fails at one of the stages or at none: malformed text, text *)
(* that is no record, records with salts and encrypted fields of every     *)
(* length class, the string of EarlierCall, and a record whose box was     *)
(* sealed (by whoever knows the password) over bytes that are no zstd      *)
(* frame.                                                                  *)
(***************************************************************************)
NoFrame == <<1, 2, 3>>

NoFrameKey == DeriveKey(<<112>>, SaltOf(1)).val

NoFrameText ==
    B64Encode(Pack(SaltOf(1), Encrypt(NoFrame, NoFrameKey, NonceOf(2)).val))

DecodeTexts == ForeignTexts \cup {EarlierCall.c.result.val, NoFrameText}

InitDecode ==
    /\ initialized = FALSE
    /\ lock = FALSE
    /\ sealed = GAlone.sealed \cup
            {[key |-> NoFrameKey, nonce |-> NonceOf(2),
              box |-> Seal(NoFrame, NonceOf(2), NoFrameKey)]}
    /\ calls = <<>>
    /\ app = NewApp(<<>>, "")
    /\ inflight = <<>>
    /\ gens = <<>>

StartDecode(text, password) ==
    /\ calls = <<>>
    /\ ModelledText(text)
    /\ StartCall(NewCall("deserialize", text, password))

NextDecode ==
    \/ \E text \in DecodeTexts, password \in Passwords : StartDecode(text, password)
    \/ \E i \in 1..Len(calls) : StepCall(i)

SpecDecode == InitDecode /\ [][NextDecode]_vars

(***************************************************************************)
(* Properties of SpecDecode.                                               *)
(***************************************************************************)
\* the operations of a deserialize call that ran every stage
DecodeOps == <<"sodium_init", "b64_decode", "rmp_decode", "argon2", "open", "zstd_decode">>

\* the first stage, in the order text-decoding, record unpacking,
\* salt-length validation, key derivation, decryption, decompression, at
\* which a call on (text, password) fails: the result it must return and
\* the number of operations it may have executed by then
FirstFailure(text, password) ==
    LET packed == B64Decode(text) IN
    IF ~packed.ok THEN [result |-> Err(Base64Error), ops |-> 2] ELSE
    LET qr_data == Unpack(packed.val) IN
    IF ~qr_data.ok THEN [result |-> Err(SerializationError), ops |-> 3] ELSE
    LET salt == SaltFromSlice(qr_data.val.salt) IN
    IF ~salt.ok THEN [result |-> InvalidSalt, ops |-> 3] ELSE
    LET key == DeriveKey(password, salt.val) IN
    IF ~key.ok THEN [result |-> InvalidPassword, ops |-> 3] ELSE
    LET decrypted == Decrypt(qr_data.val.encrypted, key.val, sealed) IN
    IF ~decrypted.ok
    THEN [result |-> DecryptionFailed,
          ops |-> IF Len(qr_data.val.encrypted) < NONCEBYTES THEN 4 ELSE 5] ELSE
    LET decompressed == Decompress(decrypted.val) IN
    IF ~decompressed.ok THEN [result |-> Err(CompressionError), ops |-> 6]
    ELSE [result |-> Ok(decompressed.val), ops |-> 6]

\* the operations executed so far are the first ones of DecodeOps, each once
\* and in that order; a returned call has the result of its first failing
\* stage (or the payload), has executed nothing after that stage, and
\* carries no bytes beside an error
StagesInOrder ==
    \A i \in 1..Len(calls) :
        LET c == calls[i]
            expected == FirstFailure(c.arg, c.password)
        IN  /\ Len(c.trace) <= Len(DecodeOps)
            /\ \A k \in 1..Len(c.trace) : c.trace[k].prim = DecodeOps[k]
            /\ c.pc = 0 =>
                /\ c.result = expected.result
                /\ Len(c.trace) = expected.ops
                /\ ~c.result.ok => c.result.val = <<>>
            /\ c.pc # 0 => c.result = Pending

\* a call moves from a statement to the next one or returns; it never goes
\* back to a statement, and a returned call stays returned
NoStageRetried ==
    \A i \in 1..Len(calls) :
        /\ calls[i].pc = 0 => calls'[i] = calls[i]
        /\ calls'[i].pc \in {calls[i].pc, calls[i].pc + 1, 0}

\* C12: deserialize runs text decoding, record unpacking, salt-length
\* validation, key derivation, decryption and decompression in this order;
\* it returns the error of the first stage that fails (Base64,
\* Serialization, InvalidSalt, InvalidPassword, DecryptionFailed,
\* Compression), executes no later stage after a failure, retries no stage
\* and returns no partial result.
DecodeStageOrder ==
    /\ []StagesInOrder
    /\ [][NoStageRetried]_vars

\* one call has returned the Compression error after every stage ran
LastStageFailureReached ==
    /\ Len(calls) = 1
    /\ calls[1].pc = 0
    /\ calls[1].result = Err(CompressionError)
    /\ Len(calls[1].trace) = 6
    /\ calls[1].decrypted = NoFrame

(***************************************************************************)
(* The other handlers of QrApp::update (src/main.rs:76-225) and the tasks  *)
(* they start.  A message the user sends is handled in the step that sends *)
(* it; a task started with Task::perform and a message queued with         *)
(* Task::done wait in inflight, and iced runs and delivers them in any     *)
(* order.  The handlers of the read window (DecryptInput, DecryptAndSave,  *)
(* CloseReadWindow) take their message in every state, as update does.     *)
(***************************************************************************)
\* the password the user types: one of the full length, and one too long
UiPassword == [i \in 1..MaxPasswordLen |-> 96 + i]

LongPassword == UiPassword \o <<33>>

TypedPasswords == {<<>>, UiPassword, LongPassword}

\* a file to encrypt, and the picture of a QR code made earlier from
\* <<7>> under UiPassword
UiFilenames == {"", "small.bin", "qr.png"}

UiCall ==
    Run(NewCall("serialize", <<7>>, UiPassword), G0,
        [salt |-> SaltOf(1), nonce |-> NonceOf(1)])

UiText == UiCall.c.result.val

\* what the user pastes into the read window
TypedTexts == {UiText}

NoPath == [some |-> FALSE, val |-> ""]

\* the outcomes of the file dialog of BrowseFile
PickedFiles == {NoPath, Some("qr.png")}

\* the tasks and messages that inflight may hold at a time
MaxInflight == 2

CanLaunch == Len(inflight) < MaxInflight

\* in SpecUi the user starts MaxUiGens generations and waits while
\* MaxUiInflight tasks or messages are under way
MaxUiGens == 1

MaxUiInflight == 1

\* read_qr_from_image, src/main.rs:375-378 and src/qr/service.rs:34-52
ReadQrFromImage(filename) ==
    IF filename = "qr.png" THEN Ok(UiText)
    ELSE [ok |-> FALSE, val |-> <<>>, err |-> UiError("ImageRead")]

\* the Err(String) of decrypt_qr_data: the message quotes the codec's error
DecryptError(e) == [kind |-> "Decrypt", len |-> 0, inner |-> e]

\* decrypt_qr_data(qr_text, password), src/main.rs:380-383: the Result it
\* returns and the library state it leaves
DecryptQrData(qr_text, password, g) ==
    CHOOSE out \in
        {[result |-> IF r.c.result.ok THEN Ok(r.c.result.val)
                     ELSE [ok |-> FALSE, val |-> <<>>, err |-> DecryptError(r.c.result.err)],
          g |-> r.g] :
         r \in {Run(NewCall("deserialize", qr_text, password), g,
                    [salt |-> SaltOf(1), nonce |-> NonceOf(1)])}} : TRUE

\* a PasswordChanged that stores a password of any length, which PasswordCap
\* rejects
PasswordChangedNoCap(password) ==
    /\ app' = [app EXCEPT !.password = password]
    /\ UNCHANGED <<initialized, lock, sealed, calls, inflight, gens>>

\* Message::PasswordChanged(password), src/main.rs:78-83
PasswordChanged(password) ==
    /\ app' = IF Len(password) <= MaxPasswordLen
              THEN [app EXCEPT !.password = password]
              ELSE app
    /\ UNCHANGED <<initialized, lock, sealed, calls, inflight, gens>>

\* Message::FilenameChanged(filename), src/main.rs:84-87
FilenameChanged(filename) ==
    /\ app' = [app EXCEPT !.filename = filename]
    /\ UNCHANGED <<initialized, lock, sealed, calls, inflight, gens>>

\* Message::BrowseFile, src/main.rs:88-98
BrowseFile ==
    /\ CanLaunch
    /\ inflight' = Append(inflight, Msg("pick_file", "", <<>>, NoPath))
    /\ UNCHANGED <<initialized, lock, sealed, calls, app, gens>>

\* the file dialog: the user picks a file or cancels
RunPickFile(k) ==
    /\ inflight[k].kind = "pick_file"
    /\ \E picked \in PickedFiles :
        inflight' = Append(Without(inflight, k), Msg("FileSelected", "", <<>>, picked))
    /\ UNCHANGED <<initialized, lock, sealed, calls, app, gens>>

\* Message::FileSelected(Some(path)) and (None), src/main.rs:99-103
FileSelected(k) ==
    /\ inflight[k].kind = "FileSelected"
    /\ app' = IF inflight[k].result.some
              THEN [app EXCEPT !.filename = inflight[k].result.val]
              ELSE app
    /\ inflight' = Without(inflight, k)
    /\ UNCHANGED <<initialized, lock, sealed, calls, gens>>

\* Message::CloseQrDisplay, src/main.rs:137-140
CloseQrDisplay ==
    /\ app' = [app EXCEPT !.qr_display = None]
    /\ UNCHANGED <<initialized, lock, sealed, calls, inflight, gens>>

\* Message::ReadQrFromFile, src/main.rs:141-156
ReadQrFromFile ==
    /\ (app.password # <<>> /\ app.filename # "") => CanLaunch
    /\ IF app.password = <<>>
       THEN /\ app' = [app EXCEPT !.error_message = Some(UiError("NoPassword"))]
            /\ UNCHANGED inflight
       ELSE IF app.filename = ""
       THEN /\ app' = [app EXCEPT !.error_message = Some(UiError("NoFile"))]
            /\ UNCHANGED inflight
       ELSE /\ inflight' = Append(inflight,
                    Msg("read_qr_from_image", app.filename, <<>>, Pending))
            /\ UNCHANGED app
    /\ UNCHANGED <<initialized, lock, sealed, calls, gens>>

\* the task Task::perform runs: read_qr_from_image(filename)
RunReadQrFromImage(k) ==
    /\ inflight[k].kind = "read_qr_from_image"
    /\ inflight' = Append(Without(inflight, k),
            Msg("QrReadFromImage", inflight[k].filename, <<>>,
                ReadQrFromImage(inflight[k].filename)))
    /\ UNCHANGED <<initialized, lock, sealed, calls, app, gens>>

\* Message::QrReadFromImage(Ok(text)) and (Err(e)), src/main.rs:157-161
QrReadFromImage(k) ==
    /\ inflight[k].kind = "QrReadFromImage"
    /\ IF inflight[k].result.ok
       THEN /\ inflight' = Append(Without(inflight, k),
                    Msg("ShowReadWindow", "", <<>>, Some(inflight[k].result.val)))
            /\ UNCHANGED app
       ELSE /\ app' = [app EXCEPT !.error_message = Some(inflight[k].result.err)]
            /\ inflight' = Without(inflight, k)
    /\ UNCHANGED <<initialized, lock, sealed, calls, gens>>

\* Message::ReadQrFromString, src/main.rs:162-168
ReadQrFromString ==
    /\ app.password # <<>> => CanLaunch
    /\ IF app.password = <<>>
       THEN /\ app' = [app EXCEPT !.error_message = Some(UiError("NoPassword"))]
            /\ UNCHANGED inflight
       ELSE /\ inflight' = Append(inflight, Msg("ShowReadWindow", "", <<>>, None))
            /\ UNCHANGED app
    /\ UNCHANGED <<initialized, lock, sealed, calls, gens>>

\* Message::ShowReadWindow(qr_text), src/main.rs:169-175
ShowReadWindow(k) ==
    /\ inflight[k].kind = "ShowReadWindow"
    /\ app' = [app EXCEPT !.read_window =
                Some([qr_text |-> IF inflight[k].result.some
                                  THEN inflight[k].result.val ELSE <<>>,
                      password |-> app.password])]
    /\ inflight' = Without(inflight, k)
    /\ UNCHANGED <<initialized, lock, sealed, calls, gens>>

\* Message::CloseReadWindow, src/main.rs:176-179
CloseReadWindow ==
    /\ app' = [app EXCEPT !.read_window = None]
    /\ UNCHANGED <<initialized, lock, sealed, calls, inflight, gens>>

\* Message::DecryptInput(text), src/main.rs:180-185
DecryptInput(text) ==
    /\ app' = IF app.read_window.some
              THEN [app EXCEPT !.read_window.val.qr_text = text]
              ELSE app
    /\ UNCHANGED <<initialized, lock, sealed, calls, inflight, gens>>

\* Message::DecryptAndSave, src/main.rs:186-198
DecryptAndSave ==
    /\ app.read_window.some => CanLaunch
    /\ inflight' = IF app.read_window.some
                   THEN Append(inflight,
                            Msg("decrypt_qr_data", "", app.read_window.val.password,
                                [qr_text |-> app.read_window.val.qr_text]))
                   ELSE inflight
    /\ UNCHANGED <<initialized, lock, sealed, calls, app, gens>>

\* the task Task::perform runs: decrypt_qr_data(qr_text, password)
RunDecryptQrData(k) ==
    /\ inflight[k].kind = "decrypt_qr_data"
    /\ \E out \in {DecryptQrData(inflight[k].result.qr_text, inflight[k].password, G)} :
        /\ inflight' = Append(Without(inflight, k), Msg("DecryptResult", "", <<>>, out.result))
        /\ SetG(out.g)
    /\ UNCHANGED <<calls, app, gens>>

\* a DecryptResult that drops the data when the read window was closed
\* meanwhile, which DecryptUnguarded rejects
DecryptResultIfOpen(k) ==
    /\ inflight[k].kind = "DecryptResult"
    /\ IF inflight[k].result.ok
       THEN /\ inflight' = IF app.read_window.some
                           THEN Append(Without(inflight, k),
                                    Msg("SaveDecryptedFile", "", <<>>, Ok(inflight[k].result.val)))
                           ELSE Without(inflight, k)
            /\ UNCHANGED app
       ELSE /\ app' = [app EXCEPT !.error_message = Some(inflight[k].result.err)]
            /\ inflight' = Without(inflight, k)
    /\ UNCHANGED <<initialized, lock, sealed, calls, gens>>

\* Message::DecryptResult(Ok(data)) and (Err(e)), src/main.rs:199-203
DecryptResult(k) ==
    /\ inflight[k].kind = "DecryptResult"
    /\ IF inflight[k].result.ok
       THEN /\ inflight' = Append(Without(inflight, k),
                    Msg("SaveDecryptedFile", "", <<>>, Ok(inflight[k].result.val)))
            /\ UNCHANGED app
       ELSE /\ app' = [app EXCEPT !.error_message = Some(inflight[k].result.err)]
            /\ inflight' = Without(inflight, k)
    /\ UNCHANGED <<initialized, lock, sealed, calls, gens>>

\* Message::SaveDecryptedFile(data), src/main.rs:204-215
SaveDecryptedFile(k) ==
    /\ inflight[k].kind = "SaveDecryptedFile"
    /\ inflight' = Append(Without(inflight, k),
            Msg("save_file", "", <<>>, Ok(inflight[k].result.val)))
    /\ UNCHANGED <<initialized, lock, sealed, calls, app, gens>>

\* the save dialog and tokio::fs::write: Ok(()) when the user cancels or the
\* file is written, Err when the write fails
RunSaveFile(k) ==
    /\ inflight[k].kind = "save_file"
    /\ \E saved \in {Ok(<<>>), [ok |-> FALSE, val |-> <<>>, err |-> UiError("Save")]} :
        inflight' = Append(Without(inflight, k), Msg("FileSaved", "", <<>>, saved))
    /\ UNCHANGED <<initialized, lock, sealed, calls, app, gens>>

\* a FileSaved that closes the read window after a failed write too, which
\* FailureLeavesReadWindow rejects
FileSavedAlwaysCloses(k) ==
    /\ inflight[k].kind = "FileSaved"
    /\ app' = IF inflight[k].result.ok
              THEN [app EXCEPT !.read_window = None]
              ELSE [app EXCEPT !.read_window = None,
                               !.error_message = Some(inflight[k].result.err)]
    /\ inflight' = Without(inflight, k)
    /\ UNCHANGED <<initialized, lock, sealed, calls, gens>>

\* Message::FileSaved(Ok(())) and (Err(e)), src/main.rs:216-223
FileSaved(k) ==
    /\ inflight[k].kind = "FileSaved"
    /\ app' = IF inflight[k].result.ok
              THEN [app EXCEPT !.read_window = None]
              ELSE [app EXCEPT !.error_message = Some(inflight[k].result.err)]
    /\ inflight' = Without(inflight, k)
    /\ UNCHANGED <<initialized, lock, sealed, calls, gens>>

(***************************************************************************)
(* SpecUi: the window from its start; the user types passwords, file names *)
(* and texts and presses the buttons in any order, while iced runs the     *)
(* tasks and delivers their messages.                                      *)
(***************************************************************************)
InitUi ==
    /\ initialized = FALSE
    /\ lock = FALSE
    /\ sealed = UiCall.g.sealed
    /\ calls = <<>>
    /\ app = NewApp(<<>>, "")
    /\ inflight = <<>>
    /\ gens = <<>>

\* the messages the user sends
UserMessage ==
    \/ \E password \in TypedPasswords : PasswordChanged(password)
    \/ \E filename \in UiFilenames : FilenameChanged(filename)
    \/ BrowseFile
    \/ CanLaunch /\ GenerateQr
    \/ CloseQrDisplay
    \/ ReadQrFromFile
    \/ ReadQrFromString
    \/ CloseReadWindow
    \/ \E text \in TypedTexts : DecryptInput(text)
    \/ DecryptAndSave

\* the tasks iced runs
RunTask(k) ==
    \/ RunPickFile(k)
    \/ RunGenerateQrAsync(k)
    \/ RunReadQrFromImage(k)
    \/ RunDecryptQrData(k)
    \/ RunSaveFile(k)

\* the messages iced delivers
Deliver(k) ==
    \/ FileSelected(k)
    \/ QrGenerated(k)
    \/ ShowQrDisplay(k)
    \/ QrReadFromImage(k)
    \/ ShowReadWindow(k)
    \/ DecryptResult(k)
    \/ SaveDecryptedFile(k)
    \/ FileSaved(k)

NextUi ==
    \/ UserMessage /\ Len(inflight') <= MaxUiInflight /\ Started' <= MaxUiGens
    \/ \E k \in 1..Len(inflight) : RunTask(k)
    \/ \E k \in 1..Len(inflight) : Deliver(k)

SpecUi == InitUi /\ [][NextUi]_vars

(***************************************************************************)
(* Properties of SpecUi.                                                   *)
(***************************************************************************)
PasswordWithinCap ==
    /\ Len(app.password) <= MaxPasswordLen
    /\ app.read_window.some => Len(app.read_window.val.password) <= MaxPasswordLen

LongPasswordIgnored ==
    \A password \in TypedPasswords :
        (Len(password) > MaxPasswordLen /\ PasswordChanged(password)) => UNCHANGED vars

\* C13: in every reachable state of QrApp the stored password, and the
\* password snapshot of the read window when it is open, has at most 20
\* characters; a PasswordChanged message with a longer value leaves the whole
\* state unchanged.
PasswordCap ==
    /\ []PasswordWithinCap
    /\ [][LongPasswordIgnored]_vars

\* a password of the full length is stored and was taken into the read window
FullLengthPasswordReached ==
    /\ Len(app.password) = MaxPasswordLen
    /\ app.read_window.some
    /\ Len(app.read_window.val.password) = MaxPasswordLen

\* a step of GenerateQr, ReadQrFromFile or ReadQrFromString taken while its
\* guard fails: no task or message is added, error_message is set, and
\* nothing else of QrApp changes
RefusedStep ==
    /\ inflight' = inflight
    /\ app'.error_message.some
    /\ app' = [app EXCEPT !.error_message = app'.error_message]

GuardsRefuse ==
    /\ ((app.password = <<>> \/ app.filename = "") /\ (GenerateQr \/ ReadQrFromFile))
        => RefusedStep
    /\ (app.password = <<>> /\ ReadQrFromString) => RefusedStep

\* every generation under way or run was started with a non-empty password
SerializeHasPassword ==
    /\ \A k \in 1..Len(inflight) :
        inflight[k].kind = "generate_qr_async" => inflight[k].password # <<>>
    /\ \A k \in 1..Len(gens) : gens[k].password # <<>>

\* C14: a GenerateQr or ReadQrFromFile message received while the password
\* or the filename is empty, and a ReadQrFromString message received while
\* the password is empty, launches no task, sets error_message and leaves
\* password, filename, qr_display, read_window and is_processing unchanged;
\* so every serialize call the UI launches has a non-empty password.
InputGuards ==
    /\ [][GuardsRefuse]_vars
    /\ []SerializeHasPassword

\* a generation has run, and later a button was refused for the missing
\* filename
GuardRefusedReached ==
    /\ Len(gens) = 1
    /\ app.password # <<>>
    /\ app.filename = ""
    /\ app.error_message = Some(UiError("NoFile"))
    /\ inflight = <<>>

\* C15 as stated: whenever the read window is open its password snapshot is
\* not empty, and so is the password of every decrypt task under way,
\* however PasswordChanged messages interleave with the image read that
\* ReadQrFromFile started.
ReadWindowHasPassword ==
    /\ app.read_window.some => app.read_window.val.password # <<>>
    /\ \A k \in 1..Len(inflight) :
        inflight[k].kind = "decrypt_qr_data" => inflight[k].password # <<>>

\* a step that handles DecryptResult(Err(e)) or FileSaved(Err(e)) stores e in
\* error_message and changes nothing else of QrApp
FailureKeepsWindow ==
    \A k \in 1..Len(inflight) :
        ((DecryptResult(k) \/ FileSaved(k)) /\ ~inflight[k].result.ok) =>
            /\ app'.error_message = Some(inflight[k].result.err)
            /\ app' = [app EXCEPT !.error_message = app'.error_message]

\* a step that closes the read window is one of CloseReadWindow or of
\* FileSaved(Ok(()))
ClosedOnlyOnRequest ==
    (app.read_window.some /\ ~app'.read_window.some) =>
        \/ CloseReadWindow
        \/ \E k \in 1..Len(inflight) : FileSaved(k) /\ inflight[k].result.ok

\* C18: a DecryptResult(Err) or FileSaved(Err) message sets error_message
\* and leaves read_window (text and password snapshot), password, filename,
\* qr_display and is_processing unchanged; the read window is closed only by
\* CloseReadWindow or by FileSaved(Ok).
FailureLeavesReadWindow ==
    /\ [][FailureKeepsWindow]_vars
    /\ [][ClosedOnlyOnRequest]_vars

\* the write of the decrypted file has failed and the read window is still
\* open, with the text it decrypted
SaveFailedReached ==
    /\ app.read_window.some
    /\ app.read_window.val.qr_text = UiText
    /\ app.error_message = Some(UiError("Save"))
    /\ inflight = <<>>

(***************************************************************************)
(* SpecEdit: the user presses Generate QR, up to MaxGens times, and edits  *)
(* the password and the filename and closes the QR display while iced runs *)
(* the task and delivers its messages.  SpecEditFair adds that a task that *)
(* can run does run and a message that waits is delivered.                 *)
(***************************************************************************)
NextEdit ==
    \/ \E password \in TypedPasswords : PasswordChanged(password)
    \/ \E filename \in UiFilenames : FilenameChanged(filename)
    \/ CloseQrDisplay
    \/ GenerateQr
    \/ \E k \in 1..Len(inflight) : RunGenerateQrAsync(k)
    \/ \E k \in 1..Len(inflight) : QrGenerated(k)
    \/ \E k \in 1..Len(inflight) : ShowQrDisplay(k)

SpecEdit == InitUi /\ [][NextEdit]_vars

\* a generate_qr_async task waits to be run: what enables RunGenerateQrAsync
TaskWaiting == \E k \in 1..Len(inflight) : inflight[k].kind = "generate_qr_async"

\* weak fairness of the task (WF_vars of RunGenerateQrAsync, with ENABLED
\* written out as TaskWaiting) and of the delivery of its messages
SpecEditFair ==
    /\ SpecEdit
    /\ \/ []<>(~TaskWaiting)
       \/ []<><<\E k \in 1..Len(inflight) : RunGenerateQrAsync(k)>>_vars
    /\ WF_vars(\E k \in 1..Len(inflight) : QrGenerated(k))
    /\ WF_vars(\E k \in 1..Len(inflight) : ShowQrDisplay(k))

(***************************************************************************)
(* Properties of SpecEdit and SpecEditFair.                                *)
(***************************************************************************)
\* the generate_qr_async tasks outstanding: started, and their QrGenerated
\* message not handled yet
Outstanding ==
    Cardinality({k \in 1..Len(inflight) :
        inflight[k].kind \in {"generate_qr_async", "QrGenerated"}})

\* C16: given that the view offers GenerateQr only while is_processing is
\* false, is_processing is true exactly when one generate_qr_async task is
\* outstanding, and at most one such task is outstanding at any time.
SingleGeneration ==
    /\ Outstanding <= 1
    /\ app.is_processing <=> Outstanding = 1

\* the second generation is under way, with the fields edited since
SecondGenerationReached ==
    /\ Len(gens) = 1
    /\ app.is_processing
    /\ Outstanding = 1
    /\ inflight[1].kind = "generate_qr_async"
    /\ inflight[1].password # app.password

\* the values generate_qr_async can return Ok with
GeneratedResults ==
    {GenerateQrAsync("small.bin", UiPassword, G0, rnd).result.val : rnd \in Rnds}

\* a step that handles QrGenerated clears is_processing, and stores the
\* failure in error_message when the task failed
QrGeneratedClears ==
    \A k \in 1..Len(inflight) :
        QrGenerated(k) =>
            /\ ~app'.is_processing
            /\ Outstanding' = 0
            /\ ~inflight[k].result.ok => app'.error_message = Some(inflight[k].result.err)

NextRead ==
    \/ \E password \in TypedPasswords : PasswordChanged(password)
    \/ ReadQrFromString
    \/ CloseReadWindow
    \/ \E text \in TypedTexts : DecryptInput(text)
    \/ DecryptAndSave
    \/ \E k \in 1..Len(inflight) : RunDecryptQrData(k) \/ RunSaveFile(k)
    \/ \E k \in 1..Len(inflight) :
        ShowReadWindow(k) \/ DecryptResult(k) \/ SaveDecryptedFile(k) \/ FileSaved(k)

SpecRead == InitUi /\ [][NextRead]_vars

(***************************************************************************)
(* Properties of SpecRead.                                                 *)
(***************************************************************************)
\* the messages of one kind under way
Waiting(q, kind) == {k \in 1..Len(q) : q[k].kind = kind}

\* a step of DecryptAndSave with the read window open adds one decrypt task,
\* with the text and the password snapshot of the window, whatever is under
\* way already; without a read window it adds nothing
DecryptAndSaveLaunches ==
    DecryptAndSave =>
        /\ app' = app
        /\ IF app.read_window.some
           THEN /\ Len(inflight') = Len(inflight) + 1
                /\ SubSeq(inflight', 1, Len(inflight)) = inflight
                /\ inflight'[Len(inflight')].kind = "decrypt_qr_data"
                /\ inflight'[Len(inflight')].result.qr_text = app.read_window.val.qr_text
                /\ inflight'[Len(inflight')].password = app.read_window.val.password
           ELSE inflight' = inflight

\* a step that handles DecryptResult(Ok(data)) queues one SaveDecryptedFile
\* with data, whether the read window is open or not
DecryptResultSaves ==
    \A k \in 1..Len(inflight) :
        (DecryptResult(k) /\ inflight[k].result.ok) =>
            /\ Cardinality(Waiting(inflight', "SaveDecryptedFile"))
                = Cardinality(Waiting(inflight, "SaveDecryptedFile")) + 1
            /\ inflight'[Len(inflight')].kind = "SaveDecryptedFile"
            /\ inflight'[Len(inflight')].result.val = inflight[k].result.val

\* closing the read window or changing its text leaves every task and
\* message under way
NothingCancelled ==
    (CloseReadWindow \/ \E text \in TypedTexts : DecryptInput(text)) => inflight' = inflight

\* C19: each DecryptAndSave received while the read window is open launches
\* one decrypt task with the window's current text and password snapshot,
\* with no guard against tasks already under way; every successful
\* DecryptResult triggers exactly one SaveDecryptedFile, even if the read
\* window was closed or its text changed while the task ran; a
\* DecryptAndSave received while no read window is open launches nothing.
DecryptUnguarded ==
    /\ [][DecryptAndSaveLaunches]_vars
    /\ [][DecryptResultSaves]_vars
    /\ [][NothingCancelled]_vars

\* with the read window closed, one decrypted file is on its way to be saved
\* while a second decrypt task still waits
SaveAfterCloseReached ==
    /\ ~app.read_window.some
    /\ Len(inflight) = 2
    /\ inflight[1].kind = "decrypt_qr_data"
    /\ inflight[2].kind = "SaveDecryptedFile"
    /\ inflight[2].result.val = <<7>>

====
